---------------------------- MODULE Spec2Model ----------------------------
(***************************************************************************)
(* Model of src/orchestrator.py: location extraction (spaCy NER with a     *)
(* regex fallback), keyword intent detection and the orchestration of the  *)
(* weather and places agents.                                              *)
(*                                                                         *)
(* A Python str is modelled as a sequence of one-character strings, so     *)
(* that lower(), find(), strip(), split(), join() and the regular          *)
(* expressions are computed character by character.  The strings returned  *)
(* by the agents and by handle_user_query are opaque to the orchestrator   *)
(* and are kept as TLA+ strings.                                           *)
(***************************************************************************)
EXTENDS Integers, Sequences, FiniteSets, TLC

VARIABLES nlp, query, pc, locations, location, intent, responses, calls, result

vars == <<nlp, query, pc, locations, location, intent, responses, calls, result>>

(***************************************************************************)
(* Characters and character classes                                        *)
(***************************************************************************)
UpperLetters == <<"A","B","C","D","E","F","G","H","I","J","K","L","M",
                  "N","O","P","Q","R","S","T","U","V","W","X","Y","Z">>

LowerLetters == <<"a","b","c","d","e","f","g","h","i","j","k","l","m",
                  "n","o","p","q","r","s","t","u","v","w","x","y","z">>

Upper == {UpperLetters[i] : i \in DOMAIN UpperLetters}

LowerSet == {LowerLetters[i] : i \in DOMAIN LowerLetters}

\* [A-Za-z]
Letter == Upper \cup LowerSet

Digit == {"0","1","2","3","4","5","6","7","8","9"}

\* \s
Space == {" ", "\t", "\n"}

\* [,.!?]
Terminator == {",", ".", "!", "?"}

\* \w
WordChar == Letter \cup Digit \cup {"_"}

\* str.lower() on one character
ToLower == [c \in Upper |-> LowerLetters[CHOOSE i \in DOMAIN UpperLetters : UpperLetters[i] = c]]

LowerChar(c) == IF c \in Upper THEN ToLower[c] ELSE c

\* str.lower()
Lower(s) == [i \in 1..Len(s) |-> LowerChar(s[i])]

(***************************************************************************)
(* Python str operations.  Positions are 1-based here; Find returns the    *)
(* 0-based index Python returns, -1 when the substring is absent.          *)
(***************************************************************************)
\* s[i:i+len(k)] == k, i 1-based
StartsAt(s, i, k) ==
    /\ i >= 1
    /\ i + Len(k) - 1 <= Len(s)
    /\ \A j \in 1..Len(k) : s[i + j - 1] = k[j]

RECURSIVE FindFrom(_, _, _)
FindFrom(s, k, i) ==
    IF i + Len(k) - 1 > Len(s) THEN -1
    ELSE IF StartsAt(s, i, k) THEN i - 1
    ELSE FindFrom(s, k, i + 1)

\* s.find(k)
Find(s, k) == FindFrom(s, k, 1)

\* k in s
Contains(s, k) == Find(s, k) # -1

\* s[:n], n as Python takes it (a negative n counts from the end)
SliceTo(s, n) ==
    IF n >= 0 THEN SubSeq(s, 1, IF n < Len(s) THEN n ELSE Len(s))
    ELSE SubSeq(s, 1, IF Len(s) + n > 0 THEN Len(s) + n ELSE 0)

\* any(keyword in s for keyword in keywords)
AnyIn(keywords, s) == \E n \in DOMAIN keywords : Contains(s, keywords[n])

RECURSIVE LStrip(_)
LStrip(s) == IF s # <<>> /\ Head(s) \in Space THEN LStrip(Tail(s)) ELSE s

RECURSIVE RStrip(_)
RStrip(s) ==
    IF s # <<>> /\ s[Len(s)] \in Space THEN RStrip(SubSeq(s, 1, Len(s) - 1)) ELSE s

\* s.strip()
Strip(s) == RStrip(LStrip(s))

\* end (exclusive) of the maximal run of characters of class cls that starts at i
RECURSIVE RunEnd(_, _, _)
RunEnd(s, i, cls) ==
    IF i <= Len(s) /\ s[i] \in cls THEN RunEnd(s, i + 1, cls) ELSE i

\* end (exclusive) of the maximal run of non-whitespace characters that starts at i
RECURSIVE TokenEnd(_, _)
TokenEnd(s, i) ==
    IF i <= Len(s) /\ s[i] \notin Space THEN TokenEnd(s, i + 1) ELSE i

\* s.split(): the maximal runs of non-whitespace characters
RECURSIVE SplitFrom(_, _)
SplitFrom(s, i) ==
    IF i > Len(s) THEN <<>>
    ELSE IF s[i] \in Space THEN SplitFrom(s, i + 1)
    ELSE <<SubSeq(s, i, TokenEnd(s, i) - 1)>> \o SplitFrom(s, TokenEnd(s, i))

Split(s) == SplitFrom(s, 1)

\* sep.join(parts) for character sequences
RECURSIVE JoinChars(_, _)
JoinChars(sep, parts) ==
    IF parts = <<>> THEN <<>>
    ELSE IF Len(parts) = 1 THEN parts[1]
    ELSE parts[1] \o sep \o JoinChars(sep, Tail(parts))

\* s.replace(old, new) for single characters
Replace(s, old, new) == [i \in 1..Len(s) |-> IF s[i] = old THEN new ELSE s[i]]

\* Python's None, and a present value, for an optional result (str | None)
None == <<>>

Some(v) == <<v>>

(***************************************************************************)
(* The word lists of the source, as character sequences                    *)
(***************************************************************************)
W_in == <<"i","n">>
W_at == <<"a","t">>
W_to == <<"t","o">>
W_near == <<"n","e","a","r">>
W_visit == <<"v","i","s","i","t">>
W_go == <<"g","o">>
W_travel == <<"t","r","a","v","e","l">>
W_trip == <<"t","r","i","p">>
W_some == <<"s","o","m","e">>
W_places == <<"p","l","a","c","e","s">>
W_any == <<"a","n","y">>
W_the == <<"t","h","e">>
W_many == <<"m","a","n","y">>
W_few == <<"f","e","w">>
W_several == <<"s","e","v","e","r","a","l">>

location_keywords == <<W_in, W_at, W_to, W_near, W_visit, W_go, W_travel, W_trip>>

filler_words == <<W_some, W_places, W_any, W_the, W_many, W_few, W_several>>

NON_LOCATIONS ==
    { <<"o","k">>, <<"y","e","s">>, <<"n","o">>, <<"h","i">>, <<"h","e","y">>,
      <<"h","e","l","l","o">>, <<"t","h","a","n","k","s">>, <<"i">> }

weather_keywords ==
    << <<"w","e","a","t","h","e","r">>,
       <<"t","e","m","p","e","r","a","t","u","r","e">>,
       <<"c","l","i","m","a","t","e">>,
       <<"r","a","i","n">>,
       <<"s","n","o","w">>,
       <<"s","u","n","n","y">>,
       <<"f","o","r","e","c","a","s","t">>,
       <<"h","u","m","i","d","i","t","y">>,
       <<"w","i","n","d">> >>

places_keywords ==
    << W_places,
       <<"a","t","t","r","a","c","t","i","o","n","s">>,
       W_visit,
       <<"t","o","u","r","i","s","t">>,
       <<"t","h","i","n","g","s"," ","t","o"," ","d","o">>,
       <<"p","l","a","n"," ","m","y"," ","t","r","i","p">>,
       <<"p","l","a","n"," ","m","y"," ","v","i","s","i","t">>,
       <<"s","i","g","h","t","s","e","e","i","n","g">>,
       <<"t","r","a","v","e","l"," ","g","u","i","d","e">>,
       <<"w","h","e","r","e"," ","t","o"," ","g","o">> >>

(***************************************************************************)
(* Regular expressions.  Each pattern is computed as Python's backtracking *)
(* matcher computes it: search() takes the leftmost start position at      *)
(* which the pattern matches, and at one start position the greedy and     *)
(* lazy quantifiers of these patterns leave one possible match:            *)
(*  - the alternatives of an alternation never match at the same place;    *)
(*  - \s+ is followed by a letter, so it takes the whole whitespace run;   *)
(*  - [A-Za-z]+ is followed by \s, a terminator or $, so it takes the      *)
(*    whole letter run;                                                    *)
(*  - the lazy [A-Za-z\s]+? is followed by a terminator or $, neither in   *)
(*    its class, so it stops at the end of the run of its class;           *)
(*  - text_clean is stripped, so $ matches at the end of the text only.    *)
(***************************************************************************)
\* [A-Z] under the flags of the call: re.IGNORECASE makes it any letter
AZ(ignorecase) == IF ignorecase THEN Letter ELSE Upper

\* the literal k at i, compared case-insensitively under re.IGNORECASE
LiteralAt(s, i, k, ignorecase) ==
    IF ignorecase THEN StartsAt(Lower(s), i, k) ELSE StartsAt(s, i, k)

\* (?:a|b|...) at i: the position after the alternative that matches, 0 if none
AltEnd(s, i, alts, ignorecase) ==
    LET hits == {n \in DOMAIN alts : LiteralAt(s, i, alts[n], ignorecase)}
    IN  IF hits = {} THEN 0
        ELSE i + Len(alts[CHOOSE n \in hits : \A m \in hits : n <= m])

\* \b at i
WordBoundary(s, i) ==
    LET before == i > 1 /\ s[i - 1] \in WordChar
        after  == i <= Len(s) /\ s[i] \in WordChar
    IN  before # after

\* (?:[,.!?]|$) at i
TerminatorOrEnd(s, i) == i > Len(s) \/ s[i] \in Terminator

\* (?:k\s+)? at i: the position after it when k and whitespace are there, else i
OptionalWord(s, i, k, ignorecase) ==
    LET e == i + Len(k)
    IN  IF LiteralAt(s, i, k, ignorecase) /\ RunEnd(s, e, Space) > e
        THEN RunEnd(s, e, Space) ELSE i

\* \s+([A-Z][A-Za-z\s]+?)(?:[,.!?]|$) at i: group 1, or None
LazyPhrase(s, i, ignorecase) ==
    LET a == RunEnd(s, i, Space)
        e == RunEnd(s, a + 1, Letter \cup Space)
    IN  IF /\ a > i
           /\ a <= Len(s)
           /\ s[a] \in AZ(ignorecase)
           /\ e > a + 1
           /\ TerminatorOrEnd(s, e)
        THEN Some(SubSeq(s, a, e - 1)) ELSE None

\* [A-Z][A-Za-z]+ at i: the position after it, 0 if it does not match
NameEnd(s, i, ignorecase) ==
    IF i <= Len(s) /\ s[i] \in AZ(ignorecase) /\ RunEnd(s, i + 1, Letter) > i + 1
    THEN RunEnd(s, i + 1, Letter) ELSE 0

\* ([A-Z][A-Za-z]+(?:\s+[A-Z][A-Za-z]+)?)(?:[,.!?]|$) at i: group 1, or None
NamePhrase(s, i, ignorecase) ==
    LET e1 == NameEnd(s, i, ignorecase)
        a  == RunEnd(s, e1, Space)
        e2 == IF e1 # 0 /\ a > e1 THEN NameEnd(s, a, ignorecase) ELSE 0
    IN  IF e1 = 0 THEN None
        ELSE IF e2 # 0 /\ TerminatorOrEnd(s, e2) THEN Some(SubSeq(s, i, e2 - 1))
        ELSE IF TerminatorOrEnd(s, e1) THEN Some(SubSeq(s, i, e1 - 1))
        ELSE None

\* patterns[0] at i:
\* \b(?:visit|go|travel|trip)\s+(?:some\s+)?(?:places\s+)?(?:in|at|to|near)\s+([A-Z][A-Za-z\s]+?)(?:[,.!?]|$)
VerbPrepPhraseAt(s, i, ignorecase) ==
    LET v  == AltEnd(s, i, <<W_visit, W_go, W_travel, W_trip>>, ignorecase)
        a  == RunEnd(s, v, Space)
        b  == OptionalWord(s, a, W_some, ignorecase)
        c  == OptionalWord(s, b, W_places, ignorecase)
        p  == AltEnd(s, c, <<W_in, W_at, W_to, W_near>>, ignorecase)
    IN  IF WordBoundary(s, i) /\ v # 0 /\ a > v /\ p # 0
        THEN LazyPhrase(s, p, ignorecase) ELSE None

\* patterns[1] at i: \b(?:in|at|to|near)\s+([A-Z][A-Za-z\s]+?)(?:[,.!?]|$)
PrepPhraseAt(s, i, ignorecase) ==
    LET p == AltEnd(s, i, <<W_in, W_at, W_to, W_near>>, ignorecase)
    IN  IF WordBoundary(s, i) /\ p # 0 THEN LazyPhrase(s, p, ignorecase) ELSE None

\* patterns[2] at i:
\* \b(?:visit|go|travel)\s+(?:to\s+)?([A-Z][A-Za-z]+(?:\s+[A-Z][A-Za-z]+)?)(?:[,.!?]|$)
\* (?:to\s+)? is tried first with "to" taken, then, if the rest fails, skipped
VerbNameAt(s, i, ignorecase) ==
    LET v == AltEnd(s, i, <<W_visit, W_go, W_travel>>, ignorecase)
        a == RunEnd(s, v, Space)
        t == OptionalWord(s, a, W_to, ignorecase)
    IN  IF WordBoundary(s, i) /\ v # 0 /\ a > v
        THEN IF t # a /\ NamePhrase(s, t, ignorecase) # None
             THEN NamePhrase(s, t, ignorecase)
             ELSE NamePhrase(s, a, ignorecase)
        ELSE None

patterns == <<"verb_prep_phrase", "prep_phrase", "verb_name">>

PatternAt(pattern, s, i, ignorecase) ==
    CASE pattern = "verb_prep_phrase" -> VerbPrepPhraseAt(s, i, ignorecase)
      [] pattern = "prep_phrase"      -> PrepPhraseAt(s, i, ignorecase)
      [] pattern = "verb_name"        -> VerbNameAt(s, i, ignorecase)

\* re.search(pattern, s, flags).group(1), or None when there is no match
Search(pattern, s, ignorecase) ==
    LET starts == {i \in 1..Len(s) : PatternAt(pattern, s, i, ignorecase) # None}
    IN  IF starts = {} THEN None
        ELSE PatternAt(pattern, s, CHOOSE i \in starts : \A j \in starts : i <= j, ignorecase)

\* [A-Z][a-zA-Z]+(?:\s+[A-Z][a-zA-Z]+)* from a first name that ends at e:
\* the position after the last name of the run
RECURSIVE CapitalRunEnd(_, _)
CapitalRunEnd(s, e) ==
    LET a == RunEnd(s, e, Space)
    IN  IF a > e /\ NameEnd(s, a, FALSE) # 0
        THEN CapitalRunEnd(s, NameEnd(s, a, FALSE)) ELSE e

\* re.findall(r"[A-Z][a-zA-Z]+(?:\s+[A-Z][a-zA-Z]+)*", s): the matches from
\* position i on, left to right and not overlapping
RECURSIVE FindAllCapitals(_, _)
FindAllCapitals(s, i) ==
    IF i > Len(s) THEN <<>>
    ELSE IF NameEnd(s, i, FALSE) # 0
         THEN LET e == CapitalRunEnd(s, NameEnd(s, i, FALSE))
              IN  <<SubSeq(s, i, e - 1)>> \o FindAllCapitals(s, e)
         ELSE FindAllCapitals(s, i + 1)

(***************************************************************************)
(* Location extraction                                                     *)
(***************************************************************************)
\* words = [w for w in words if w.lower() not in filler_words]
RECURSIVE DropFillers(_)
DropFillers(words) ==
    IF words = <<>> THEN <<>>
    ELSE IF \E n \in DOMAIN filler_words : Lower(Head(words)) = filler_words[n]
         THEN DropFillers(Tail(words))
         ELSE <<Head(words)>> \o DropFillers(Tail(words))

\* the candidate of one match: group(1).strip(), fillers dropped, joined, stripped
Candidate(group) == Strip(JoinChars(<<" ">>, DropFillers(Split(Strip(group)))))

\* if candidate and len(candidate) > 2
Accepted(candidate) == candidate # <<>> /\ Len(candidate) > 2

\* variant of RegexTier: the first pattern that matches ends the loop, also
\* when its candidate is not accepted
RECURSIVE RegexTierFirstMatch(_, _)
RegexTierFirstMatch(text_clean, n) ==
    IF n > Len(patterns) THEN None
    ELSE LET match == Search(patterns[n], text_clean, TRUE)
         IN  IF match # None
             THEN IF Accepted(Candidate(match[1]))
                  THEN Some(Lower(Candidate(match[1]))) ELSE None
             ELSE RegexTierFirstMatch(text_clean, n + 1)

\* for pattern in patterns[n:]: the candidate of the first pattern that
\* matches with an accepted candidate is returned; a pattern that does not
\* match, or whose candidate is not accepted, passes on to the next one
RECURSIVE RegexTier(_, _)
RegexTier(text_clean, n) ==
    IF n > Len(patterns) THEN None
    ELSE LET match == Search(patterns[n], text_clean, TRUE)
         IN  IF match # None /\ Accepted(Candidate(match[1]))
             THEN Some(Lower(Candidate(match[1])))
             ELSE RegexTier(text_clean, n + 1)

\* variant of LastResort: returns cap, not cap.lower()
RECURSIVE LastResortAsWritten(_, _)
LastResortAsWritten(capitals, n) ==
    IF n < 1 THEN None
    ELSE IF Lower(capitals[n]) \notin NON_LOCATIONS THEN Some(capitals[n])
    ELSE LastResortAsWritten(capitals, n - 1)

\* for cap in reversed(capitals): the last capitalised run not in NON_LOCATIONS
RECURSIVE LastResort(_, _)
LastResort(capitals, n) ==
    IF n < 1 THEN None
    ELSE IF Lower(capitals[n]) \notin NON_LOCATIONS THEN Some(Lower(capitals[n]))
    ELSE LastResort(capitals, n - 1)

extract_location_fallback(text) ==
    LET text_norm  == Replace(text, "'", "'")
        text_clean == Strip(text_norm)
        capitals   == FindAllCapitals(text_norm, 1)
    IN  IF RegexTier(text_clean, 1) # None THEN RegexTier(text_clean, 1)
        ELSE LastResort(capitals, Len(capitals))

\* locations = [ent.text for ent in doc.ents if ent.label_ in ["GPE", "LOC"]]
RECURSIVE LocationEntities(_)
LocationEntities(ents) ==
    IF ents = <<>> THEN <<>>
    ELSE IF Head(ents).label_ \in {"GPE", "LOC"}
         THEN <<Head(ents).text>> \o LocationEntities(Tail(ents))
         ELSE LocationEntities(Tail(ents))

\* the keyword test of one entity: a location keyword in the text before the
\* first occurrence of the entity's lowercased text
KeywordBefore(text, loc) ==
    LET text_lower == Lower(text)
        loc_pos    == Find(text_lower, Lower(loc))
        prefix     == SliceTo(text_lower, loc_pos)
    IN  AnyIn(location_keywords, prefix)

\* variant of PreferredLocation: the keyword test is left out
PreferredLocationLast(text, locs, n) == Lower(locs[Len(locs)])

\* for loc in locations[n:]: ... return loc.lower(); else locations[-1].lower()
RECURSIVE PreferredLocation(_, _, _)
PreferredLocation(text, locs, n) ==
    IF n > Len(locs) THEN Lower(locs[Len(locs)])
    ELSE IF KeywordBefore(text, locs[n]) THEN Lower(locs[n])
    ELSE PreferredLocation(text, locs, n + 1)

\* model is the module's nlp (None when the spaCy model is not installed),
\* ents is doc.ents of nlp(text)
extract_location_nlp(model, text, ents) ==
    IF model = "None" THEN extract_location_fallback(text)
    ELSE IF LocationEntities(ents) # <<>>
         THEN Some(PreferredLocation(text, LocationEntities(ents), 1))
         ELSE extract_location_fallback(text)

extract_location(model, text, ents) == extract_location_nlp(model, text, ents)

(***************************************************************************)
(* Intent detection                                                        *)
(***************************************************************************)
\* variant of detect_intent: the default is applied whenever no places keyword matched
detect_intent_default_without_places(text) ==
    LET q             == Lower(text)
        wants_weather == AnyIn(weather_keywords, q)
        wants_places  == AnyIn(places_keywords, q)
    IN  IF ~wants_places THEN <<wants_weather, TRUE>> ELSE <<wants_weather, wants_places>>

\* variant of detect_intent: the default turns both flags on
detect_intent_default_both(text) ==
    LET q             == Lower(text)
        wants_weather == AnyIn(weather_keywords, q)
        wants_places  == AnyIn(places_keywords, q)
    IN  IF ~(wants_weather \/ wants_places) THEN <<TRUE, TRUE>>
        ELSE <<wants_weather, wants_places>>

\* variant of detect_intent: no default
detect_intent_no_default(text) ==
    LET q == Lower(text)
    IN  <<AnyIn(weather_keywords, q), AnyIn(places_keywords, q)>>

\* returns <<wants_weather, wants_places>>
detect_intent(text) ==
    LET q             == Lower(text)
        wants_weather == AnyIn(weather_keywords, q)
        wants_places  == AnyIn(places_keywords, q)
    IN  IF ~(wants_weather \/ wants_places)
        THEN <<wants_weather, TRUE>>
        ELSE <<wants_weather, wants_places>>

(***************************************************************************)
(* handle_user_query                                                       *)
(***************************************************************************)
NO_LOCATION_MESSAGE ==
    "I'm not sure which location you are referring to. Please provide the city name."

NO_INTENT_MESSAGE ==
    "Please ask about the weather or places to visit for a specific location."

\* variant of Falsy: the test for a missing location is left out
NeverFalsy(loc) == FALSE

\* not location
Falsy(loc) == loc = None \/ loc[1] = <<>>

\* not responses
NoResponses(resp) == resp = <<>>

\* variant of JoinResponses: a single newline as the separator
RECURSIVE JoinResponsesNewline(_)
JoinResponsesNewline(resp) ==
    IF resp = <<>> THEN ""
    ELSE IF Len(resp) = 1 THEN resp[1]
    ELSE resp[1] \o "\n" \o JoinResponsesNewline(Tail(resp))

\* "\n\n".join(responses)
RECURSIVE JoinResponses(_)
JoinResponses(resp) ==
    IF resp = <<>> THEN ""
    ELSE IF Len(resp) = 1 THEN resp[1]
    ELSE resp[1] \o "\n\n" \o JoinResponses(Tail(resp))

(***************************************************************************)
(* Inputs: the queries, the output of the NER model, the agents' results   *)
(***************************************************************************)
MaxWords == 3

MaxEnts == 2

\* the tokens queries are made of; "," attaches to the token before it
Vocabulary ==
    { <<"w","e","a","t","h","e","r">>, W_visit, W_to, W_in, W_the,
      <<"P","a","r","i","s">>, <<"H","i">>, <<",">> }

RECURSIVE Render(_)
Render(tokens) ==
    IF tokens = <<>> THEN <<>>
    ELSE LET before == Render(SubSeq(tokens, 1, Len(tokens) - 1))
             last   == tokens[Len(tokens)]
         IN  IF before = <<>> \/ last = <<",">> THEN before \o last
             ELSE before \o <<" ">> \o last

Queries ==
    {Render(t) : t \in UNION {[1..n -> Vocabulary] : n \in 0..MaxWords}}

\* the maximal letter runs of the text, in document order
RECURSIVE WordsOf(_, _)
WordsOf(s, i) ==
    IF i > Len(s) THEN <<>>
    ELSE IF s[i] \in Letter
         THEN <<SubSeq(s, i, RunEnd(s, i, Letter) - 1)>> \o WordsOf(s, RunEnd(s, i, Letter))
         ELSE WordsOf(s, i + 1)

\* the entity labels the NER model gives; "O" marks a word outside any entity
Labels == {"GPE", "LOC", "PERSON"}

RECURSIVE EntsOf(_, _, _)
EntsOf(words, tags, n) ==
    IF n > Len(words) THEN <<>>
    ELSE IF tags[n] = "O" THEN EntsOf(words, tags, n + 1)
    ELSE <<[text |-> words[n], label_ |-> tags[n]]>> \o EntsOf(words, tags, n + 1)

\* nlp(text).ents: the model is opaque, so any words of the text, at most
\* MaxEnts of them, may come back as entities, in document order
NlpOutputs(text) ==
    LET words == WordsOf(text, 1)
    IN  { EntsOf(words, tags, 1) :
            tags \in { t \in [DOMAIN words -> Labels \cup {"O"}] :
                         Cardinality({n \in DOMAIN words : t[n] # "O"}) <= MaxEnts } }

\* what get_weather_info and get_places_info may return
WeatherReturns == {"", "Sunny, 21 C"}

PlacesReturns == {"", "Louvre, Eiffel Tower"}

(***************************************************************************)
(* State machine: one call of handle_user_query at a time                  *)
(***************************************************************************)
Init ==
    /\ nlp \in {"None", "en_core_web_sm"}
    /\ query = <<>>
    /\ pc = "idle"
    /\ locations = <<>>
    /\ location = None
    /\ intent = None
    /\ responses = <<>>
    /\ calls = <<>>
    /\ result = None

\* handle_user_query(q) is called
Call ==
    /\ pc = "idle"
    /\ \E q \in Queries : query' = q
    /\ pc' = "extract"
    /\ UNCHANGED <<nlp, locations, location, intent, responses, calls, result>>

\* location = extract_location(query); if not location: return ...
ExtractLocation ==
    /\ pc = "extract"
    /\ \E ents \in (IF nlp = "None" THEN {<<>>} ELSE NlpOutputs(query)) :
          /\ locations' = LocationEntities(ents)
          /\ location' = extract_location(nlp, query, ents)
    /\ IF Falsy(location')
       THEN pc' = "returned" /\ result' = Some(NO_LOCATION_MESSAGE)
       ELSE pc' = "intent" /\ result' = result
    /\ UNCHANGED <<nlp, query, intent, responses, calls>>

\* wants_weather, wants_places = detect_intent(query); responses = []
DetectIntent ==
    /\ pc = "intent"
    /\ intent' = Some(detect_intent(query))
    /\ responses' = <<>>
    /\ locations' = <<>>
    /\ pc' = "weather"
    /\ UNCHANGED <<nlp, query, location, calls, result>>

\* if wants_weather: responses.append(get_weather_info(location))
GetWeatherInfo ==
    /\ pc = "weather"
    /\ intent[1][1]
    /\ \E r \in WeatherReturns :
          /\ responses' = Append(responses, r)
          /\ calls' = Append(calls, [agent |-> "get_weather_info", arg |-> location,
                                     returned |-> Some(r)])
    /\ pc' = "places"
    /\ UNCHANGED <<nlp, query, locations, location, intent, result>>

\* variant of GetWeatherInfoRaises: the exception is caught and the call goes on
GetWeatherInfoCaught ==
    /\ pc = "weather"
    /\ intent[1][1]
    /\ calls' = Append(calls, [agent |-> "get_weather_info", arg |-> location,
                               returned |-> None])
    /\ pc' = "places"
    /\ UNCHANGED <<nlp, query, locations, location, intent, responses, result>>

\* get_weather_info raises: nothing catches it
GetWeatherInfoRaises ==
    /\ pc = "weather"
    /\ intent[1][1]
    /\ calls' = Append(calls, [agent |-> "get_weather_info", arg |-> location,
                               returned |-> None])
    /\ pc' = "raised"
    /\ UNCHANGED <<nlp, query, locations, location, intent, responses, result>>

SkipWeather ==
    /\ pc = "weather"
    /\ ~intent[1][1]
    /\ pc' = "places"
    /\ UNCHANGED <<nlp, query, locations, location, intent, responses, calls, result>>

\* if wants_places: responses.append(get_places_info(location))
GetPlacesInfo ==
    /\ pc = "places"
    /\ intent[1][2]
    /\ \E r \in PlacesReturns :
          /\ responses' = Append(responses, r)
          /\ calls' = Append(calls, [agent |-> "get_places_info", arg |-> location,
                                     returned |-> Some(r)])
    /\ pc' = "join"
    /\ UNCHANGED <<nlp, query, locations, location, intent, result>>

\* get_places_info raises: nothing catches it
GetPlacesInfoRaises ==
    /\ pc = "places"
    /\ intent[1][2]
    /\ calls' = Append(calls, [agent |-> "get_places_info", arg |-> location,
                               returned |-> None])
    /\ pc' = "raised"
    /\ UNCHANGED <<nlp, query, locations, location, intent, responses, result>>

SkipPlaces ==
    /\ pc = "places"
    /\ ~intent[1][2]
    /\ pc' = "join"
    /\ UNCHANGED <<nlp, query, locations, location, intent, responses, calls, result>>

\* if not responses: return ...; return "\n\n".join(responses)
Return ==
    /\ pc = "join"
    /\ result' = IF NoResponses(responses) THEN Some(NO_INTENT_MESSAGE)
                 ELSE Some(JoinResponses(responses))
    /\ pc' = "returned"
    /\ UNCHANGED <<nlp, query, locations, location, intent, responses, calls>>

\* the caller has the result (or the exception); the locals of the call are gone
Finish ==
    /\ pc \in {"returned", "raised"}
    /\ pc' = "idle"
    /\ query' = <<>>
    /\ locations' = <<>>
    /\ location' = None
    /\ intent' = None
    /\ responses' = <<>>
    /\ calls' = <<>>
    /\ result' = None
    /\ UNCHANGED nlp

Next ==
    \/ Call
    \/ ExtractLocation
    \/ DetectIntent
    \/ GetWeatherInfo
    \/ GetWeatherInfoRaises
    \/ SkipWeather
    \/ GetPlacesInfo
    \/ GetPlacesInfoRaises
    \/ SkipPlaces
    \/ Return
    \/ Finish

Spec == Init /\ [][Next]_vars

(***************************************************************************)
(* Properties                                                              *)
(***************************************************************************)
\* k occurs in s as a contiguous substring
HasSubstring(s, k) ==
    \E i \in 1..(Len(s) - Len(k) + 1) : SubSeq(s, i, i + Len(k) - 1) = k

MentionsWeather(q) ==
    \E n \in DOMAIN weather_keywords : HasSubstring(Lower(q), weather_keywords[n])

MentionsPlaces(q) ==
    \E n \in DOMAIN places_keywords : HasSubstring(Lower(q), places_keywords[n])

\* the call is past extract_location
Extracted == pc \notin {"idle", "extract"}

\* extract_location has just returned: nothing else of the call has run
JustExtracted == pc = "intent" \/ (pc = "returned" /\ intent = None)

NoLocation == location = None \/ location = Some(<<>>)

AgentsCalled == [i \in DOMAIN calls |-> calls[i].agent]

T_Paris == <<"P","a","r","i","s">>

T_paris == <<"p","a","r","i","s">>

\* C1: when extract_location returns no location (None or empty), the call
\* returns the fixed "not sure which location" message verbatim and neither
\* agent is invoked, whatever keywords the query holds; and nothing is
\* classified or dispatched before the location has been extracted.
C1_NoLocationNoAgents ==
    /\ pc \in {"idle", "extract"} => intent = None /\ calls = <<>>
    /\ Extracted /\ NoLocation =>
          /\ pc = "returned"
          /\ result = Some("I'm not sure which location you are referring to. Please provide the city name.")
          /\ calls = <<>>
          /\ intent = None

\* a query with a weather keyword and no location has been answered
C1_Witness ==
    /\ pc = "returned"
    /\ location = None
    /\ MentionsWeather(query)
    /\ result = Some("I'm not sure which location you are referring to. Please provide the city name.")

\* C2: with a location, a weather keyword and a places keyword, the agents
\* are invoked weather first, places second, each once and with the extracted
\* location, and the call returns weather string, "\n\n", places string.
C2_BothInOrder ==
    Extracted /\ ~NoLocation /\ MentionsWeather(query) /\ MentionsPlaces(query) =>
        /\ Len(calls) <= 2
        /\ AgentsCalled = SubSeq(<<"get_weather_info", "get_places_info">>, 1, Len(calls))
        /\ \A i \in DOMAIN calls : calls[i].arg = location
        /\ pc = "join" => Len(calls) = 2
        /\ pc = "returned" =>
              /\ Len(calls) = 2
              /\ result = Some(calls[1].returned[1] \o "\n\n" \o calls[2].returned[1])

\* both agents answered and the joined answer has been returned
C2_Witness ==
    /\ pc = "returned"
    /\ MentionsWeather(query) /\ MentionsPlaces(query)
    /\ Len(calls) = 2
    /\ result = Some("Sunny, 21 C\n\nLouvre, Eiffel Tower")

\* C3: with a location and keywords of exactly one set, only the agent of
\* that set is invoked and the call returns exactly what that agent returned.
C3_OnlyMatchingAgent ==
    /\ Extracted /\ ~NoLocation /\ MentionsWeather(query) /\ ~MentionsPlaces(query) =>
          /\ \A i \in DOMAIN calls : calls[i].agent = "get_weather_info"
          /\ pc = "returned" =>
                /\ Len(calls) = 1 /\ calls[1].arg = location
                /\ result = calls[1].returned
    /\ Extracted /\ ~NoLocation /\ MentionsPlaces(query) /\ ~MentionsWeather(query) =>
          /\ \A i \in DOMAIN calls : calls[i].agent = "get_places_info"
          /\ pc = "returned" =>
                /\ Len(calls) = 1 /\ calls[1].arg = location
                /\ result = calls[1].returned

\* a weather-only query has been answered with the weather agent's string
C3_Witness ==
    /\ pc = "returned"
    /\ MentionsWeather(query) /\ ~MentionsPlaces(query)
    /\ AgentsCalled = <<"get_weather_info">>
    /\ result = Some("Sunny, 21 C")

\* C4: detect_intent returns wants_weather = (a weather keyword is a
\* substring of the lowercased query) and wants_places = (a places keyword
\* is, or no keyword of either set is); a query with no keyword and a
\* location is answered with the places agent's string only.
C4_IntentFlags ==
    /\ intent # None =>
          intent = Some(<< MentionsWeather(query),
                           MentionsPlaces(query)
                             \/ ~(MentionsWeather(query) \/ MentionsPlaces(query)) >>)
    /\ pc = "returned" /\ ~NoLocation /\ ~MentionsWeather(query) /\ ~MentionsPlaces(query) =>
          /\ intent = Some(<<FALSE, TRUE>>)
          /\ AgentsCalled = <<"get_places_info">>
          /\ result = calls[1].returned

\* a query with a location and no keyword has been answered by the places agent
C4_Witness ==
    /\ pc = "returned"
    /\ ~NoLocation
    /\ ~MentionsWeather(query) /\ ~MentionsPlaces(query)
    /\ intent = Some(<<FALSE, TRUE>>)
    /\ result = Some("Louvre, Eiffel Tower")

\* the query holds the city as a word of its own, right after a cue word
\* (in, at, to, near, visit, go, travel, trip) and whitespace
CueThenCity(q, city) ==
    \E n \in DOMAIN location_keywords :
        LET phrase == location_keywords[n] \o <<" ">> \o city
        IN  \E i \in 1..(Len(q) - Len(phrase) + 1) :
                /\ SubSeq(q, i, i + Len(phrase) - 1) = phrase
                /\ i = 1 \/ q[i - 1] \notin WordChar
                /\ i + Len(phrase) > Len(q) \/ q[i + Len(phrase)] \notin WordChar

\* the words of the query that start with a capital letter
CapitalisedWords(q) ==
    {w \in {WordsOf(q, 1)[n] : n \in DOMAIN WordsOf(q, 1)} : w[1] \in Upper}

\* C5: when the query holds a capitalised city name right after a cue word,
\* extract_location returns that city in lowercase and nothing more, on the
\* NER path (the model tags the city) and on the regex fallback path (the
\* model is not installed).  The city is the only capitalised word here.
C5_CueCityExtracted ==
    /\ JustExtracted
    /\ CueThenCity(query, T_Paris)
    /\ CapitalisedWords(query) = {T_Paris}
    /\ nlp = "None" \/ locations = <<T_Paris>>
    => location = Some(T_paris)

\* the first pattern, in list order, that matches the stripped text at all
FirstMatching(text_clean) ==
    LET hits == {n \in DOMAIN patterns : Search(patterns[n], text_clean, TRUE) # None}
    IN  IF hits = {} THEN 0 ELSE CHOOSE n \in hits : \A m \in hits : n <= m

\* the first pattern, in list order, that matches with a candidate of more
\* than 2 characters after the filler words are removed
FirstAccepted(text_clean) ==
    LET hits == {n \in DOMAIN patterns :
                    /\ Search(patterns[n], text_clean, TRUE) # None
                    /\ Len(Candidate(Search(patterns[n], text_clean, TRUE)[1])) > 2}
    IN  IF hits = {} THEN 0 ELSE CHOOSE n \in hits : \A m \in hits : n <= m

\* what the capitalised-run scan gives when the regex tier gives nothing
LastResortOutcome(text) ==
    LET capitals == FindAllCapitals(text, 1)
        kept     == {n \in DOMAIN capitals : Lower(capitals[n]) \notin NON_LOCATIONS}
    IN  IF kept = {} THEN None
        ELSE Some(Lower(capitals[CHOOSE n \in kept : \A m \in kept : m <= n]))

\* the result of extract_location_fallback when pattern n decides the regex tier
DecidedBy(text, n) ==
    LET candidate == Candidate(Search(patterns[n], Strip(text), TRUE)[1])
    IN  IF Len(candidate) > 2 THEN Some(Lower(candidate)) ELSE LastResortOutcome(text)

\* C9 as stated: the first pattern that matches the text decides the regex
\* tier, also when its phrase is left with 2 or fewer characters; the match
\* of a later pattern is never used.
C9_FirstMatchDecides ==
    JustExtracted /\ nlp = "None" /\ FirstMatching(Strip(query)) # 0 =>
        location = DecidedBy(query, FirstMatching(Strip(query)))

\* C9 as amended: the patterns are tried in list order and the first pattern
\* that matches with a candidate of more than 2 characters after filler
\* removal decides the regex tier; a pattern that matches with a shorter
\* candidate is passed over and the later patterns are still tried; when no
\* pattern is accepted the capitalised-run scan decides.
C9_FirstAcceptedDecides ==
    JustExtracted /\ nlp = "None" =>
        IF FirstAccepted(Strip(query)) # 0
        THEN location = DecidedBy(query, FirstAccepted(Strip(query)))
        ELSE location = LastResortOutcome(query)

\* an earlier pattern matched with too short a candidate and a later pattern decided
C9_Witness ==
    /\ JustExtracted /\ nlp = "None"
    /\ FirstMatching(Strip(query)) # 0
    /\ FirstAccepted(Strip(query)) > FirstMatching(Strip(query))
    /\ location = DecidedBy(query, FirstAccepted(Strip(query)))

\* C6: detect_intent never returns (false, false); once a location was found
\* the response list is not empty when it is joined, also when an agent
\* returned the empty string; the fixed "Please ask about ..." prompt is
\* never returned.
C6_NoIntentBranchDead ==
    /\ intent # None => intent[1] # <<FALSE, FALSE>>
    /\ pc = "join" => responses # <<>>
    /\ result # Some("Please ask about the weather or places to visit for a specific location.")

\* an agent returned the empty string and the response list is about to be joined
C6_Witness == pc = "join" /\ responses = <<"">>

IsLowercaseLocation(loc) ==
    /\ loc # None
    /\ loc[1] # <<>>
    /\ \A i \in DOMAIN loc[1] : loc[1][i] \notin Upper

\* C7: on every extraction path a result of extract_location that is not
\* absent is a non-empty string without an uppercase letter, so every
\* location passed to an agent is a non-empty lowercase string.
C7_LowercaseLocation ==
    /\ location # None => IsLowercaseLocation(location)
    /\ \A i \in DOMAIN calls : IsLowercaseLocation(calls[i].arg)

\* without the NER model, a query with no pattern match and a capitalised
\* word has been located by the capitalised-run scan and passed to an agent
C7_Witness ==
    /\ nlp = "None"
    /\ FirstMatching(Strip(query)) = 0
    /\ CapitalisedWords(query) # {}
    /\ calls # <<>>
    /\ calls[1].arg = location
    /\ IsLowercaseLocation(location)

\* C8: an agent's failure is not caught: the call ends with the failure, no
\* string is returned and nothing more is invoked; when get_weather_info
\* fails get_places_info is not invoked, and when get_places_info fails
\* after get_weather_info succeeded the weather fragment is not returned.
C8_FailurePropagates ==
    /\ \A i \in DOMAIN calls :
          calls[i].returned = None => pc = "raised" /\ i = Len(calls)
    /\ pc = "raised" =>
          /\ result = None
          /\ calls # <<>> /\ calls[Len(calls)].returned = None
          /\ calls[Len(calls)].agent = "get_weather_info" =>
                \A i \in DOMAIN calls : calls[i].agent # "get_places_info"

\* get_places_info failed after get_weather_info had returned a fragment
C8_Witness ==
    /\ pc = "raised"
    /\ Len(calls) = 2
    /\ calls[1].returned = Some("Sunny, 21 C")
    /\ calls[2].agent = "get_places_info"
    /\ responses = <<"Sunny, 21 C">>
    /\ result = None

\* a location keyword occurs in the lowercased text before the first
\* occurrence of the entity's lowercased text
KeywordPrecedes(text, loc) ==
    LET s     == Lower(text)
        l     == Lower(loc)
        occ   == {i \in 1..(Len(s) - Len(l) + 1) : SubSeq(s, i, i + Len(l) - 1) = l}
        first == CHOOSE i \in occ : \A j \in occ : i <= j
    IN  \E n \in DOMAIN location_keywords :
            \E i \in 1..Len(s) :
                /\ i + Len(location_keywords[n]) - 1 < first
                /\ SubSeq(s, i, i + Len(location_keywords[n]) - 1) = location_keywords[n]

\* C10: on the NER path with at least one GPE/LOC entity the result is the
\* lowercased first entity, in document order, that has a location keyword
\* before its first occurrence in the lowercased text, or, when no entity has
\* one, the lowercased last entity; the regex fallback has no part in it.
C10_NerPreference ==
    JustExtracted /\ nlp # "None" /\ locations # <<>> =>
        LET preferred == {n \in DOMAIN locations : KeywordPrecedes(query, locations[n])}
        IN  IF preferred = {}
            THEN location = Some(Lower(locations[Len(locations)]))
            ELSE location = Some(Lower(locations[CHOOSE n \in preferred :
                                                    \A m \in preferred : n <= m]))

\* two entities, the first after a keyword: it is returned, not the last one
C10_Witness ==
    /\ JustExtracted /\ nlp # "None"
    /\ Len(locations) = 2
    /\ KeywordPrecedes(query, locations[1])
    /\ Lower(locations[1]) # Lower(locations[2])
    /\ location = Some(Lower(locations[1]))

=============================================================================
